---- MODULE Spec2Model ----
(***************************************************************************)
(* State-machine model of entendre: the NeuralNetBuilder templates         *)
(* (src/src/neural_net.rs), the connection scheduler connection_order and  *)
(* the ConsecutiveNeuralNet evaluator (src/src/neural_net_consecutive.rs). *)
(*                                                                         *)
(* Node and connection indices are 0-based as in the source; a Vec v is a  *)
(* TLA+ sequence and v[i] of the source is v[i + 1] here.  f32 values are  *)
(* modelled by exact integers; the activation functions that map integers  *)
(* to integers are modelled exactly, the transcendental ones carry no      *)
(* definition and graphs using them are not evaluated.                     *)
(***************************************************************************)
EXTENDS Integers, Sequences, FiniteSets, TLC

\* ------------------------------------------------------------------ bounds
MaxNodes == 2        \* node templates a builder holds
MaxConns == 3        \* connection templates handed to the scheduler
EvalConns == 2       \* connection templates of an evaluated graph
MaxInputs == 2       \* longest input slice handed to evaluate
MaxCalls == 2        \* evaluate calls on one graph

\* ------------------------------------------------------- enumerated domains
NodeType == {"Bias", "Input", "Output", "Hidden"}

ConnectionType == {"Normal", "Recurrent"}

ActivationFunction ==
    {"Sigmoid", "Identity", "Tanh", "Relu", "Gaussian", "Sin", "Cos", "Abs",
     "Square"}

\* The activation functions that are closed over the integers.
ExactFunction == {"Identity", "Relu", "Abs", "Square"}

Weights == {-1, 2}

InputValues == {-3, 1}

\* ActivationFunction::apply on the integer-closed functions.
apply(func, x) ==
    CASE func = "Identity" -> x
      [] func = "Relu" -> IF x > 0 THEN x ELSE 0
      [] func = "Abs" -> IF x < 0 THEN -x ELSE x
      [] func = "Square" -> x * x

NodeTemplate == [node_type : NodeType, func : ActivationFunction]

\* The node indices connection templates name.
NodeIndex == {0, 1, 2}

ConnectionTemplate ==
    [origin : NodeIndex, dest : NodeIndex, weight : Weights,
     connection_type : ConnectionType]

\* All sequences over S of length at most n.
SeqUpTo(S, n) == UNION {[1..k -> S] : k \in 0..n}

VARIABLES
    builder_nodes,        \* NeuralNetBuilder.nodes
    builder_connections,  \* NeuralNetBuilder.connections
    default_func,         \* NeuralNetBuilder.default_func
    pc,                   \* "builder" | "order" | "net" | "error" | "panic"
    must_be_after,        \* connection_order: the HashMap of unplaced keys
    output,               \* connection_order: the order built so far
    err,                  \* "None" | "ConnectionLoop" | "InvalidConnectionIndex"
    net_nodes,            \* ConsecutiveNeuralNet.nodes
    net_connections,      \* ConsecutiveNeuralNet.connections
    res,                  \* the Vec returned by the last evaluate call
    calls,                \* evaluate calls made on the graph
    other,                \* a second build result, of the same templates
    op,                   \* the builder operation called last
    eval                  \* the evaluate call in progress and what it has done

vars ==
    <<builder_nodes, builder_connections, default_func, pc, must_be_after,
      output, err, net_nodes, net_connections, res, calls, other, op, eval>>

builder_vars == <<builder_nodes, builder_connections, default_func, op>>

order_vars == <<must_be_after, output>>

net_vars == <<net_nodes, net_connections, res, calls, other, eval>>

\* ------------------------------------------------------------ the builder
\* NeuralNetBuilder::new
new ==
    /\ builder_nodes = <<>>
    /\ builder_connections = <<>>
    /\ default_func = "Sigmoid"

\* n pushes of the same template.
PushN(s, t, n) == s \o [k \in 1..n |-> t]

set_default_activation(func) ==
    /\ pc = "builder"
    /\ default_func' = func
    /\ op' = [name |-> "set_default_activation", func |-> func]
    /\ UNCHANGED <<builder_nodes, builder_connections, pc, order_vars, err,
                   net_vars>>

add_input ==
    /\ pc = "builder"
    /\ Len(builder_nodes) < MaxNodes
    /\ builder_nodes' =
           Append(builder_nodes, [node_type |-> "Input", func |-> "Identity"])
    /\ op' = [name |-> "add_input"]
    /\ UNCHANGED <<builder_connections, default_func, pc, order_vars, err,
                   net_vars>>

add_inputs(n) ==
    /\ pc = "builder"
    /\ Len(builder_nodes) + n <= MaxNodes
    /\ builder_nodes' =
           PushN(builder_nodes, [node_type |-> "Input", func |-> "Identity"], n)
    /\ op' = [name |-> "add_inputs", n |-> n]
    /\ UNCHANGED <<builder_connections, default_func, pc, order_vars, err,
                   net_vars>>

add_node(node_type, func) ==
    /\ pc = "builder"
    /\ Len(builder_nodes) < MaxNodes
    /\ builder_nodes' =
           Append(builder_nodes, [node_type |-> node_type, func |-> func])
    /\ op' = [name |-> "add_node", node_type |-> node_type, func |-> func]
    /\ UNCHANGED <<builder_connections, default_func, pc, order_vars, err,
                   net_vars>>

\* add_nodes that ignores the default in effect and always uses Sigmoid.
add_nodes_with_sigmoid(node_type, n) ==
    /\ pc = "builder"
    /\ Len(builder_nodes) + n <= MaxNodes
    /\ builder_nodes' =
           PushN(builder_nodes,
                 [node_type |-> node_type, func |-> "Sigmoid"], n)
    /\ op' = [name |-> "add_nodes", node_type |-> node_type, n |-> n]
    /\ UNCHANGED <<builder_connections, default_func, pc, order_vars, err,
                   net_vars>>

add_nodes(node_type, n) ==
    /\ pc = "builder"
    /\ Len(builder_nodes) + n <= MaxNodes
    /\ builder_nodes' =
           PushN(builder_nodes,
                 [node_type |-> node_type, func |-> default_func], n)
    /\ op' = [name |-> "add_nodes", node_type |-> node_type, n |-> n]
    /\ UNCHANGED <<builder_connections, default_func, pc, order_vars, err,
                   net_vars>>

add_connection(origin, dest, weight, connection_type) ==
    /\ pc = "builder"
    /\ Len(builder_connections) < MaxConns
    /\ builder_connections' =
           Append(builder_connections,
                  [origin |-> origin, dest |-> dest, weight |-> weight,
                   connection_type |-> connection_type])
    /\ op' = [name |-> "add_connection", origin |-> origin, dest |-> dest,
              weight |-> weight, connection_type |-> connection_type]
    /\ UNCHANGED <<builder_nodes, default_func, pc, order_vars, err, net_vars>>

add_normal_connection(origin, dest, weight) ==
    add_connection(origin, dest, weight, "Normal")

add_recurrent_connection(origin, dest, weight) ==
    add_connection(origin, dest, weight, "Recurrent")

\* ---------------------------------------------------------- the scheduler
\* An index range that starts one too late.
IndexRangeFromOne(n) == 1..(n - 1)

\* 0..connections.len(), the half-open index range of the source.
IndexRange(n) == 0..(n - 1)

\* connections[i]
At(connections, i) == connections[i + 1]

\* A filter that lets a connection depend on itself.
same_or_different_connection(i, j) == TRUE

different_connection(i, j) == i # j

\* The read rule keyed on the type of the wrong connection.
after_input_conn_type_of_i(conn_i, conn_j) ==
    /\ conn_i.dest = conn_j.origin
    /\ conn_i.connection_type = "Normal"

after_input_conn(conn_i, conn_j) ==
    /\ conn_i.dest = conn_j.origin
    /\ conn_j.connection_type = "Normal"

\* The feedback rule keyed on the type of the wrong connection.
before_output_conn_type_of_j(conn_i, conn_j) ==
    /\ conn_i.origin = conn_j.dest
    /\ conn_j.connection_type = "Recurrent"

before_output_conn(conn_i, conn_j) ==
    /\ conn_i.origin = conn_j.dest
    /\ conn_i.connection_type = "Recurrent"

\* The filter closure without the feedback rule.
required_before_read_rule_only(connections, j) ==
    {i \in IndexRange(Len(connections)) :
        /\ different_connection(i, j)
        /\ after_input_conn(At(connections, i), At(connections, j))}

\* The filter closure: the indices i that must be placed before j.
required_before(connections, j) ==
    {i \in IndexRange(Len(connections)) :
        /\ different_connection(i, j)
        /\ \/ after_input_conn(At(connections, i), At(connections, j))
           \/ before_output_conn(At(connections, i), At(connections, j))}

\* The HashMap collected before the loop: j -> required_before.
MustBeAfter(connections) ==
    [j \in IndexRange(Len(connections)) |-> required_before(connections, j)]

\* A loop without the filter: every unplaced key passes.
AllKeys(m) == DOMAIN m

\* The keys the filter of the loop lets through: every required index has
\* been removed from the map.
ReadyKeys(m) ==
    {k \in DOMAIN m : \A before \in m[k] : before \notin DOMAIN m}

\* A remove that leaves the key in the map.
RemoveNothing(m, k) == m

\* HashMap::remove
RemoveKey(m, k) == [j \in (DOMAIN m) \ {k} |-> m[j]]

\* build / build_from up to the call of connection_order, and the set-up of
\* connection_order.
build ==
    /\ pc = "builder"
    /\ must_be_after' = MustBeAfter(builder_connections)
    /\ output' = <<>>
    /\ pc' = "order"
    /\ UNCHANGED <<builder_vars, err, net_vars>>

\* One iteration of the while loop that finds a next connection.  The
\* iteration order of the HashMap is unspecified: any ready key may be the
\* first the iterator yields.
order_step ==
    /\ pc = "order"
    /\ DOMAIN must_be_after # {}
    /\ \E next_connection \in ReadyKeys(must_be_after) :
          /\ output' = Append(output, next_connection)
          /\ must_be_after' = RemoveKey(must_be_after, next_connection)
    /\ UNCHANGED <<builder_vars, pc, err, net_vars>>

\* The iteration that finds no ready key: ok_or(Error::ConnectionLoop)?
order_loop ==
    /\ pc = "order"
    /\ DOMAIN must_be_after # {}
    /\ ReadyKeys(must_be_after) = {}
    /\ err' = "ConnectionLoop"
    /\ pc' = "error"
    /\ UNCHANGED <<builder_vars, order_vars, net_vars>>

Accumulator(x) == [tag |-> "Accumulator", x |-> x]

Activated(x) == [tag |-> "Activated", x |-> x]

\* The nodes build_from materialises from the node templates.
MakeNodes(templates) ==
    [k \in 1..Len(templates) |->
        [value |-> Accumulator(0),
         node_type |-> templates[k].node_type,
         func |-> templates[k].func]]

\* A get that misses the last connection.
ResolvesBelowLast(connections, i) == i >= 0 /\ i < Len(connections) - 1

\* builder.connections.get(i)
Resolves(connections, i) == i >= 0 /\ i < Len(connections)

\* The connections build_from materialises in scheduler order.
MakeConnections(connections, order) ==
    [k \in 1..Len(order) |-> At(connections, order[k])]

\* connection_order returns Ok(output); build_from resolves every index and
\* returns the graph, or InvalidConnectionIndex.
order_done ==
    /\ pc = "order"
    /\ DOMAIN must_be_after = {}
    /\ IF \A k \in 1..Len(output) : Resolves(builder_connections, output[k])
       THEN /\ net_nodes' = MakeNodes(builder_nodes)
            /\ net_connections' = MakeConnections(builder_connections, output)
            /\ pc' = "net"
            /\ err' = err
       ELSE /\ err' = "InvalidConnectionIndex"
            /\ pc' = "error"
            /\ UNCHANGED <<net_nodes, net_connections>>
    /\ UNCHANGED <<builder_vars, order_vars, res, calls, other, eval>>

\* ------------------------------------------------------------ evaluation
\* get_val that computes the value and does not store it in the node.
get_val_forgets(node) ==
    IF node.value.tag = "Activated"
    THEN [val |-> node.value.x, node |-> node]
    ELSE [val |-> apply(node.func, node.value.x), node |-> node]

\* Node::get_val: the value read and the node it leaves behind.
get_val(node) ==
    IF node.value.tag = "Activated"
    THEN [val |-> node.value.x, node |-> node]
    ELSE LET output_val == apply(node.func, node.value.x)
         IN  [val |-> output_val,
              node |-> [node EXCEPT !.value = Activated(output_val)]]

\* add_to_val that adds to a settled value instead of replacing it.
add_to_val_always_adds(node, x) ==
    [node EXCEPT !.value = Accumulator(x + node.value.x)]

\* Node::add_to_val
add_to_val(node, x) ==
    IF node.value.tag = "Activated"
    THEN [node EXCEPT !.value = Accumulator(x)]
    ELSE [node EXCEPT !.value = Accumulator(x + node.value.x)]

\* The number of nodes of type t among the first n nodes.
Rank(nodes, t, n) == Cardinality({k \in 1..n : nodes[k].node_type = t})

\* load_input_values that also clears every node that is no Input node.
load_input_values_resetting(nodes, inputs) ==
    [n \in 1..Len(nodes) |->
        IF nodes[n].node_type = "Input"
        THEN LET k == Rank(nodes, "Input", n)
             IN  IF k <= Len(inputs)
                 THEN [nodes[n] EXCEPT !.value = Activated(inputs[k])]
                 ELSE nodes[n]
        ELSE [nodes[n] EXCEPT !.value = Accumulator(0)]]

\* load_input_values that settles the Input nodes left without an input at 0.
load_input_values_zeroes_rest(nodes, inputs) ==
    [n \in 1..Len(nodes) |->
        IF nodes[n].node_type = "Input"
        THEN LET k == Rank(nodes, "Input", n)
             IN  IF k <= Len(inputs)
                 THEN [nodes[n] EXCEPT !.value = Activated(inputs[k])]
                 ELSE [nodes[n] EXCEPT !.value = Activated(0)]
        ELSE nodes[n]]

\* load_input_values that pairs an Input node with the input at the node's
\* own position among all nodes.
load_input_values_by_position(nodes, inputs) ==
    [n \in 1..Len(nodes) |->
        IF nodes[n].node_type = "Input" /\ n <= Len(inputs)
        THEN [nodes[n] EXCEPT !.value = Activated(inputs[n])]
        ELSE nodes[n]]

\* load_input_values that stores the input as an accumulated sum.
load_input_values_accumulates(nodes, inputs) ==
    [n \in 1..Len(nodes) |->
        IF nodes[n].node_type = "Input"
        THEN LET k == Rank(nodes, "Input", n)
             IN  IF k <= Len(inputs)
                 THEN [nodes[n] EXCEPT !.value = Accumulator(inputs[k])]
                 ELSE nodes[n]
        ELSE nodes[n]]

\* ConsecutiveNeuralNet::load_input_values: the Input nodes, in order, zipped
\* with the inputs.
load_input_values(nodes, inputs) ==
    [n \in 1..Len(nodes) |->
        IF nodes[n].node_type = "Input"
        THEN LET k == Rank(nodes, "Input", n)
             IN  IF k <= Len(inputs)
                 THEN [nodes[n] EXCEPT !.value = Activated(inputs[k])]
                 ELSE nodes[n]
        ELSE nodes[n]]

\* nodes[i] of a Vec panics when i is not below its length.
InBounds(nodes, i) == i < Len(nodes)

\* The closure run for one connection.  The origin is indexed and read first,
\* then the destination is indexed; either index may panic.
fire(nodes, conn) ==
    IF ~InBounds(nodes, conn.origin)
    THEN [panicked |-> TRUE, nodes |-> nodes]
    ELSE LET read == get_val(nodes[conn.origin + 1])
             nodes1 == [nodes EXCEPT ![conn.origin + 1] = read.node]
         IN  IF ~InBounds(nodes, conn.dest)
             THEN [panicked |-> TRUE, nodes |-> nodes1]
             ELSE [panicked |-> FALSE,
                   nodes |-> [nodes1 EXCEPT ![conn.dest + 1] =
                                 add_to_val(nodes1[conn.dest + 1],
                                            read.val * conn.weight)]]

RECURSIVE fire_from(_, _, _)
\* connections.iter().for_each from the k-th connection on.
fire_from(nodes, connections, k) ==
    IF k > Len(connections)
    THEN [panicked |-> FALSE, nodes |-> nodes]
    ELSE LET step == fire(nodes, connections[k])
         IN  IF step.panicked
             THEN step
             ELSE fire_from(step.nodes, connections, k + 1)

\* The nodes after every Output node was read.
settle_outputs(nodes) ==
    [n \in 1..Len(nodes) |->
        IF nodes[n].node_type = "Output"
        THEN get_val(nodes[n]).node
        ELSE nodes[n]]

\* The values read from every node, whatever its type.
collect_all_nodes(nodes) == [n \in 1..Len(nodes) |-> get_val(nodes[n]).val]

\* The values read from the Output nodes, in node order.
collect_outputs(nodes) ==
    LET outs == SelectSeq([n \in 1..Len(nodes) |-> n],
                          LAMBDA n : nodes[n].node_type = "Output")
    IN  [k \in 1..Len(outs) |-> get_val(nodes[outs[k]]).val]

\* Every node of the graph has an activation function the model defines.
Evaluable(nodes) == \A n \in 1..Len(nodes) : nodes[n].func \in ExactFunction

\* ConsecutiveNeuralNet::evaluate on the graph (nodes, connections): whether
\* it panicked, the nodes it leaves and the Vec it returns.
evaluate_net(nodes, connections, inputs) ==
    LET fired ==
            CHOOSE f \in {fire_from(load_input_values(nodes, inputs),
                                    connections, 1)} : TRUE
    IN  IF fired.panicked
        THEN [panicked |-> TRUE, nodes |-> fired.nodes, res |-> <<>>]
        ELSE [panicked |-> FALSE,
              nodes |-> settle_outputs(fired.nodes),
              res |-> collect_outputs(fired.nodes)]

\* A call of evaluate on the built graph.
evaluate(inputs) ==
    /\ pc = "net"
    /\ calls < MaxCalls
    /\ Evaluable(net_nodes)
    /\ \E call \in {evaluate_net(net_nodes, net_connections, inputs)} :
          /\ pc' = IF call.panicked THEN "panic" ELSE pc
          /\ net_nodes' = call.nodes
          /\ res' = IF call.panicked THEN res ELSE call.res
    /\ calls' = calls + 1
    /\ UNCHANGED <<builder_vars, order_vars, err, net_connections, other, eval>>

\* No second build result is held.
NoOther == [pc |-> "none"]

\* The builder was made by new and no operation was called on it.
NoOp == [name |-> "new"]

\* No evaluate call is in progress and none was made.
NoEval == [inputs |-> <<>>]

\* ------------------------------------------------- evaluate, step by step
\* The same call taken one step of its body at a time: load_input_values,
\* then the closure once for each connection, then the collection of the
\* Output values.  eval records the call: the inputs it was handed, the index
\* k of the connection to fire next, the nodes at its start, the value the
\* last closure read, for each node the value last read from it since it last
\* received a contribution (seen) and the contributions it received (got).
Min(a, b) == IF a <= b THEN a ELSE b

\* The inputs the zip of load_input_values consumes; evaluate uses no other
\* after the load.
Taken(nodes, inputs) ==
    SubSeq(inputs, 1, Min(Len(inputs), Rank(nodes, "Input", Len(nodes))))

\* evaluate up to and including load_input_values (line 163).
evaluate_load(inputs) ==
    /\ pc = "net"
    /\ calls < MaxCalls
    /\ Evaluable(net_nodes)
    /\ pc' = "fire"
    /\ net_nodes' = load_input_values(net_nodes, inputs)
    /\ eval' = [inputs |-> inputs,
                k |-> 1,
                start |-> net_nodes,
                read |-> <<>>,
                seen |-> [n \in 1..Len(net_nodes) |-> <<>>],
                got |-> [n \in 1..Len(net_nodes) |-> <<>>]]
    /\ UNCHANGED <<builder_vars, order_vars, err, net_connections, res, calls,
                   other>>

\* One run of the closure of for_each (lines 169-172), for connection eval.k.
evaluate_fire ==
    /\ pc = "fire"
    /\ eval.k <= Len(net_connections)
    /\ LET conn == net_connections[eval.k]
           step == fire(net_nodes, conn)
           val == get_val(net_nodes[conn.origin + 1]).val
           inputs == Taken(net_nodes, eval.inputs)
       IN  /\ net_nodes' = step.nodes
           /\ IF ~InBounds(net_nodes, conn.origin)
              THEN eval' = [eval EXCEPT !.inputs = inputs, !.read = <<>>]
              ELSE IF step.panicked
              THEN eval' = [eval EXCEPT !.inputs = inputs,
                                        !.read = <<val>>,
                                        !.seen[conn.origin + 1] = <<val>>]
              ELSE eval' =
                       [inputs |-> inputs,
                        k |-> eval.k + 1,
                        start |-> eval.start,
                        read |-> <<val>>,
                        seen |-> [[eval.seen EXCEPT ![conn.origin + 1] = <<val>>]
                                     EXCEPT ![conn.dest + 1] = <<>>],
                        got |-> [eval.got EXCEPT ![conn.dest + 1] =
                                    Append(@, val * conn.weight)]]
           /\ pc' = IF step.panicked THEN "panic" ELSE pc
           /\ calls' = IF step.panicked THEN calls + 1 ELSE calls
    /\ UNCHANGED <<builder_vars, order_vars, err, net_connections, res, other>>

\* The collection of the Output values (lines 175-179) and the return.
evaluate_collect ==
    /\ pc = "fire"
    /\ eval.k > Len(net_connections)
    /\ pc' = "net"
    /\ res' = collect_outputs(net_nodes)
    /\ net_nodes' = settle_outputs(net_nodes)
    /\ calls' = calls + 1
    /\ eval' = [inputs |-> Taken(net_nodes, eval.inputs)]
    /\ UNCHANGED <<builder_vars, order_vars, err, net_connections, other>>

\* ------------------------------------------------------------ scheduler run
\* The scheduler applied to every bounded connection sequence.
\* The connection templates handed to the scheduler, which reads no weight.
SchedTemplate ==
    [origin : NodeIndex, dest : NodeIndex, weight : {1},
     connection_type : ConnectionType]

InitSched ==
    /\ builder_nodes = <<>>
    /\ builder_connections \in SeqUpTo(SchedTemplate, MaxConns)
    /\ default_func = "Sigmoid"
    /\ pc = "builder"
    /\ must_be_after = <<>>
    /\ output = <<>>
    /\ err = "None"
    /\ net_nodes = <<>>
    /\ net_connections = <<>>
    /\ res = <<>>
    /\ calls = 0
    /\ other = NoOther
    /\ op = NoOp
    /\ eval = NoEval

NextSched == build \/ order_step \/ order_loop \/ order_done

SpecSched == InitSched /\ [][NextSched]_vars

\* The scheduler run to its end, on every bounded connection sequence over
\* the indices 0 and 1.  connection_order and build_from are straight-line
\* code around one loop: a step that can be taken is taken.
LoopIndex == {0, 1}

LoopTemplate ==
    [origin : LoopIndex, dest : LoopIndex, weight : {1},
     connection_type : ConnectionType]

InitLoop ==
    /\ builder_nodes = <<>>
    /\ builder_connections \in SeqUpTo(LoopTemplate, MaxConns)
    /\ default_func = "Sigmoid"
    /\ pc = "builder"
    /\ must_be_after = <<>>
    /\ output = <<>>
    /\ err = "None"
    /\ net_nodes = <<>>
    /\ net_connections = <<>>
    /\ res = <<>>
    /\ calls = 0
    /\ other = NoOther
    /\ op = NoOp
    /\ eval = NoEval

SpecLoop == InitLoop /\ [][NextSched]_vars /\ WF_vars(NextSched)

\* ----------------------------------------------------------- evaluation run
\* The node templates the evaluation run draws from: an Input, a Hidden and
\* an Output node, with activation functions of linear growth.
EvalNodeTemplate ==
    {[node_type |-> "Input", func |-> "Abs"],
     [node_type |-> "Hidden", func |-> "Relu"],
     [node_type |-> "Output", func |-> "Abs"]}

\* The node indices the connections of the evaluation run name: with fewer
\* than two node templates some of them are out of range.
EvalIndex == {0, 1}

\* The connection templates the evaluation run draws from.
EvalConnectionTemplate ==
    [origin : EvalIndex, dest : EvalIndex, weight : {-2},
     connection_type : ConnectionType]

\* The slices handed to evaluate.
Inputs == SeqUpTo(InputValues, MaxInputs)

\* A builder holding any bounded node and connection templates, among them
\* connections that name a node index no node template has.
InitEval ==
    /\ builder_nodes \in SeqUpTo(EvalNodeTemplate, MaxNodes)
    /\ builder_connections \in SeqUpTo(EvalConnectionTemplate, EvalConns)
    /\ default_func = "Sigmoid"
    /\ pc = "builder"
    /\ must_be_after = <<>>
    /\ output = <<>>
    /\ err = "None"
    /\ net_nodes = <<>>
    /\ net_connections = <<>>
    /\ res = <<>>
    /\ calls = 0
    /\ other = NoOther
    /\ op = NoOp
    /\ eval = NoEval

NextEval ==
    \/ build
    \/ order_step
    \/ order_loop
    \/ order_done
    \/ \E inputs \in Inputs : evaluate(inputs)

SpecEval == InitEval /\ [][NextEval]_vars

\* ---------------------------------------------------- two builds, compared
\* Every order in which the templates of s can be appended.
Reorderings(s) ==
    {[k \in 1..Len(s) |-> s[p[k]]] : p \in Permutations(1..Len(s))}

\* A second builder is given the same node templates and the same connection
\* templates in another order, as test_multilayered_net does; the result of
\* the first build is kept.
rebuild ==
    /\ pc \in {"net", "error"}
    /\ other = NoOther
    /\ calls = 0
    /\ other' = [pc |-> pc, err |-> err, nodes |-> net_nodes,
                 connections |-> net_connections, res |-> <<>>]
    /\ builder_connections' \in Reorderings(builder_connections)
    /\ pc' = "builder"
    /\ err' = "None"
    /\ must_be_after' = <<>>
    /\ output' = <<>>
    /\ net_nodes' = <<>>
    /\ net_connections' = <<>>
    /\ UNCHANGED <<builder_nodes, default_func, res, calls, op, eval>>

\* The same evaluate call made on both graphs.
evaluate_both(inputs) ==
    /\ pc = "net"
    /\ other # NoOther
    /\ other.pc = "net"
    /\ calls < MaxCalls
    /\ Evaluable(net_nodes)
    /\ \E call \in {evaluate_net(net_nodes, net_connections, inputs)},
          other_call \in {evaluate_net(other.nodes, other.connections, inputs)} :
          /\ pc' = IF call.panicked THEN "panic" ELSE pc
          /\ net_nodes' = call.nodes
          /\ res' = IF call.panicked THEN res ELSE call.res
          /\ other' = [other EXCEPT
                          !.pc = IF other_call.panicked THEN "panic" ELSE @,
                          !.nodes = other_call.nodes,
                          !.res = IF other_call.panicked THEN @ ELSE other_call.res]
    /\ calls' = calls + 1
    /\ UNCHANGED <<builder_vars, order_vars, err, net_connections, eval>>

\* The node templates of the compared builds: two nodes, so that every index
\* of EvalIndex names a node.
PairNodes == [1..2 -> EvalNodeTemplate]

InitPair ==
    /\ builder_nodes \in PairNodes
    /\ builder_connections \in SeqUpTo(EvalConnectionTemplate, EvalConns)
    /\ default_func = "Sigmoid"
    /\ pc = "builder"
    /\ must_be_after = <<>>
    /\ output = <<>>
    /\ err = "None"
    /\ net_nodes = <<>>
    /\ net_connections = <<>>
    /\ res = <<>>
    /\ calls = 0
    /\ other = NoOther
    /\ op = NoOp
    /\ eval = NoEval

NextPair ==
    \/ build
    \/ order_step
    \/ order_loop
    \/ order_done
    \/ rebuild
    \/ \E inputs \in Inputs : evaluate_both(inputs)

SpecPair == InitPair /\ [][NextPair]_vars

\* The step-by-step evaluation of every graph of one node, or of two nodes of
\* which the second is no Input node, under every connection sequence over
\* the indices 0 and 1.
StepInner == {t \in EvalNodeTemplate : t.node_type # "Input"}

StepNodes ==
    {<<a>> : a \in EvalNodeTemplate} \cup
    {<<a, b>> : a \in EvalNodeTemplate, b \in StepInner}

InitStep ==
    /\ builder_nodes \in StepNodes
    /\ builder_connections \in SeqUpTo(EvalConnectionTemplate, EvalConns)
    /\ default_func = "Sigmoid"
    /\ pc = "builder"
    /\ must_be_after = <<>>
    /\ output = <<>>
    /\ err = "None"
    /\ net_nodes = <<>>
    /\ net_connections = <<>>
    /\ res = <<>>
    /\ calls = 0
    /\ other = NoOther
    /\ op = NoOp
    /\ eval = NoEval

NextStep ==
    \/ build
    \/ order_step
    \/ order_loop
    \/ order_done
    \/ \E inputs \in Inputs : evaluate_load(inputs)
    \/ evaluate_fire
    \/ evaluate_collect

SpecStep == InitStep /\ [][NextStep]_vars

\* The step-by-step evaluation of every graph of three nodes of which only
\* the first may be an Input node, under every sequence of Normal connections
\* over the indices 0, 1 and 2.
FeedNodes ==
    {<<a, b, c>> : a \in EvalNodeTemplate, b \in StepInner, c \in StepInner}

FeedConnectionTemplate ==
    [origin : NodeIndex, dest : NodeIndex, weight : {-2},
     connection_type : {"Normal"}]

InitFeed ==
    /\ builder_nodes \in FeedNodes
    /\ builder_connections \in SeqUpTo(FeedConnectionTemplate, EvalConns)
    /\ default_func = "Sigmoid"
    /\ pc = "builder"
    /\ must_be_after = <<>>
    /\ output = <<>>
    /\ err = "None"
    /\ net_nodes = <<>>
    /\ net_connections = <<>>
    /\ res = <<>>
    /\ calls = 0
    /\ other = NoOther
    /\ op = NoOp
    /\ eval = NoEval

SpecFeed == InitFeed /\ [][NextStep]_vars

\* The step-by-step evaluation of every graph of up to MaxNodes nodes, of
\* which any number may be Input nodes, under self-connections of node 0.
LoadConnectionTemplate ==
    [origin : {0}, dest : {0}, weight : {-2}, connection_type : ConnectionType]

InitLoad ==
    /\ builder_nodes \in SeqUpTo(EvalNodeTemplate, MaxNodes)
    /\ builder_connections \in SeqUpTo(LoadConnectionTemplate, EvalConns)
    /\ default_func = "Sigmoid"
    /\ pc = "builder"
    /\ must_be_after = <<>>
    /\ output = <<>>
    /\ err = "None"
    /\ net_nodes = <<>>
    /\ net_connections = <<>>
    /\ res = <<>>
    /\ calls = 0
    /\ other = NoOther
    /\ op = NoOp
    /\ eval = NoEval

SpecLoad == InitLoad /\ [][NextStep]_vars

\* The builder alone: it starts as new leaves it and every operation of its
\* interface may be called on it, with arguments from small sets.
BuilderFunction == {"Sigmoid", "Relu"}

InitBuilder ==
    /\ new
    /\ pc = "builder"
    /\ must_be_after = <<>>
    /\ output = <<>>
    /\ err = "None"
    /\ net_nodes = <<>>
    /\ net_connections = <<>>
    /\ res = <<>>
    /\ calls = 0
    /\ other = NoOther
    /\ op = NoOp
    /\ eval = NoEval

NextBuilder ==
    \/ \E func \in BuilderFunction : set_default_activation(func)
    \/ add_input
    \/ \E n \in 0..MaxNodes : add_inputs(n)
    \/ \E node_type \in NodeType, func \in BuilderFunction :
           add_node(node_type, func)
    \/ \E node_type \in NodeType, n \in 0..MaxNodes : add_nodes(node_type, n)
    \/ add_normal_connection(0, 1, 1)
    \/ add_recurrent_connection(1, 1, 1)

SpecBuilder == InitBuilder /\ [][NextBuilder]_vars

\* ------------------------------------------------- properties of the order
\* The indices of the connection templates of the builder.
ConnIdx == 0..(Len(builder_connections) - 1)

Conn(i) == builder_connections[i + 1]

\* The position of connection i in the returned order.
Pos(i) == CHOOSE k \in 1..Len(output) : output[k] = i

\* The read-ordering rule of the scheduler contract.
ReadRule(i, j) ==
    /\ Conn(i).dest = Conn(j).origin
    /\ Conn(j).connection_type = "Normal"

\* The feedback rule of the scheduler contract.
FeedbackRule(i, j) ==
    /\ Conn(i).connection_type = "Recurrent"
    /\ Conn(i).origin = Conn(j).dest

\* The must-come-before relation between distinct connections.
Precedes ==
    {p \in ConnIdx \X ConnIdx :
        p[1] # p[2] /\ (ReadRule(p[1], p[2]) \/ FeedbackRule(p[1], p[2]))}

RECURSIVE Closure(_, _)
\* R with every pair joined through the connections 0..k (Warshall).
Closure(R, k) ==
    IF k < 0
    THEN R
    ELSE LET through == Closure(R, k - 1)
         IN  through \cup {p \in ConnIdx \X ConnIdx :
                              <<p[1], k>> \in through /\ <<k, p[2]>> \in through}

\* The transitive closure of a relation R over the connection indices.
TransitiveClosure(R) ==
    LET relation == R
    IN  Closure(relation, Len(builder_connections) - 1)

\* R has a cycle: some pair of R leads back to where it starts.
HasCycle(R) ==
    LET closure == TransitiveClosure(R)
    IN  \E p \in R : p[1] = p[2] \/ <<p[2], p[1]>> \in closure

\* C1: when connection_order succeeds on n templates, the returned vector
\* has length n and holds every index of 0..n-1 exactly once, and the graph
\* holds exactly the templates' connections in that order.
C1_OrderIsPermutation ==
    pc = "net" =>
        /\ Len(output) = Len(builder_connections)
        /\ \A i \in ConnIdx : Cardinality({k \in 1..Len(output) : output[k] = i}) = 1
        /\ Len(net_connections) = Len(builder_connections)
        /\ \A k \in 1..Len(output) : net_connections[k] = Conn(output[k])

C1_Witness ==
    /\ pc = "net"
    /\ Len(output) = 3
    /\ output[1] = 2

\* C2: in every returned order, a connection i whose destination is the
\* origin of a distinct Normal connection j appears before j.
C2_ReadOrdering ==
    pc = "net" =>
        \A i, j \in ConnIdx : (i # j /\ ReadRule(i, j)) => Pos(i) < Pos(j)

C2_Witness ==
    /\ pc = "net"
    /\ \E i, j \in ConnIdx : i > j /\ ReadRule(i, j) /\ Pos(i) < Pos(j)

\* C3: in every returned order, a Recurrent connection i whose origin is the
\* destination of a distinct connection j appears before j.
C3_FeedbackOrdering ==
    pc = "net" =>
        \A i, j \in ConnIdx : (i # j /\ FeedbackRule(i, j)) => Pos(i) < Pos(j)

C3_Witness ==
    /\ pc = "net"
    /\ \E i, j \in ConnIdx : i > j /\ FeedbackRule(i, j) /\ Pos(i) < Pos(j)

\* C4: connection_order ends with ConnectionLoop exactly when the
\* must-come-before relation has a cycle, and with an order exactly when it
\* has none, whichever ready connection each iteration picks.
C4_LoopIffCycle ==
    /\ pc = "error" => (err = "ConnectionLoop" /\ HasCycle(Precedes))
    /\ pc = "net" => ~HasCycle(Precedes)

C4_Witness ==
    /\ pc = "error"
    /\ err = "ConnectionLoop"
    /\ HasCycle(Precedes)
    /\ Len(output) = 1

\* A Normal connection i feeds the origin of a Normal connection j; i = j is
\* a Normal self-loop.
NormalLink ==
    {p \in ConnIdx \X ConnIdx :
        /\ Conn(p[1]).connection_type = "Normal"
        /\ Conn(p[2]).connection_type = "Normal"
        /\ Conn(p[1]).dest = Conn(p[2]).origin}

\* C5: a connection set with a directed cycle of one or more Normal
\* connections never builds: build ends with ConnectionLoop.
C5_NormalCycleFails ==
    (pc \in {"net", "error"} /\ HasCycle(NormalLink)) =>
        (pc = "error" /\ err = "ConnectionLoop")

\* A Recurrent connection i feeds the origin of a Recurrent connection j.
RecurrentLink ==
    {p \in ConnIdx \X ConnIdx :
        /\ Conn(p[1]).connection_type = "Recurrent"
        /\ Conn(p[2]).connection_type = "Recurrent"
        /\ Conn(p[1]).dest = Conn(p[2]).origin}

\* A link between two distinct Recurrent connections that leads back to
\* where it starts lies on a directed cycle of two or more distinct
\* Recurrent connections.
HasRecurrentCycle ==
    LET closure == TransitiveClosure(RecurrentLink)
    IN  \E p \in RecurrentLink :
            p[1] # p[2] /\ <<p[2], p[1]>> \in closure

\* C6: a connection set with a directed cycle of two or more distinct
\* Recurrent connections never builds: build ends with ConnectionLoop.
C6_RecurrentCycleFails ==
    (pc \in {"net", "error"} /\ HasRecurrentCycle) =>
        (pc = "error" /\ err = "ConnectionLoop")

C6_Witness ==
    /\ HasRecurrentCycle
    /\ pc = "error"
    /\ err = "ConnectionLoop"
    /\ Len(builder_connections) = 3

\* --------------------------------------------- properties of build, evaluate
\* Every connection of the graph names nodes the graph has.
IndicesInRange ==
    \A k \in 1..Len(net_connections) :
        /\ net_connections[k].origin < Len(net_nodes)
        /\ net_connections[k].dest < Len(net_nodes)

\* C7: build returns no graph whose connections name an origin or destination
\* that is not smaller than the number of node templates.
C7_BuildRejectsOutOfRange == pc = "net" => IndicesInRange

\* C8: no evaluate call on a graph that build returned ends in a failure such
\* as indexing a node outside the node sequence.
C8_EvaluateNeverFails == pc # "panic"

\* The positions of the Output nodes of the graph, in template order.
OutputNodes ==
    SelectSeq([n \in 1..Len(net_nodes) |-> n],
              LAMBDA n : builder_nodes[n].node_type = "Output")

C10_OrderIndependent ==
    (other # NoOther /\ pc \in {"net", "error", "panic"}) =>
        /\ other.pc = pc
        /\ pc = "error" => other.err = err
        /\ other.res = res

C10_Witness ==
    /\ other # NoOther
    /\ pc = "net"
    /\ calls = 2
    /\ other.connections # net_connections
    /\ \E k \in 1..Len(res) : res[k] > 0

\* ------------------------------------------------ properties of the builder
\* s is a prefix of t: t is s with templates appended, none changed.
IsPrefix(s, t) == Len(s) <= Len(t) /\ SubSeq(t, 1, Len(s)) = s

\* The node templates the step appended.
AppendedNodes == SubSeq(builder_nodes', Len(builder_nodes) + 1,
                        Len(builder_nodes'))

\* C14: every builder operation only appends templates and never changes,
\* removes or reorders one that exists; set_default_activation changes the
\* default and no template; add_nodes appends templates of the default in
\* effect when it is called; add_input and add_inputs append Input templates
\* with Identity whatever the default is; only set_default_activation changes
\* the default.
C14_BuilderDefaults ==
    [][pc = "builder" =>
        /\ IsPrefix(builder_nodes, builder_nodes')
        /\ IsPrefix(builder_connections, builder_connections')
        /\ op'.name = "set_default_activation" =>
               /\ builder_nodes' = builder_nodes
               /\ builder_connections' = builder_connections
               /\ default_func' = op'.func
        /\ op'.name # "set_default_activation" => default_func' = default_func
        /\ op'.name = "add_nodes" =>
               /\ Len(AppendedNodes) = op'.n
               /\ \A k \in 1..Len(AppendedNodes) :
                      AppendedNodes[k] =
                          [node_type |-> op'.node_type, func |-> default_func]
        /\ op'.name = "add_input" => Len(AppendedNodes) = 1
        /\ op'.name = "add_inputs" => Len(AppendedNodes) = op'.n
        /\ op'.name \in {"add_input", "add_inputs"} =>
               \A k \in 1..Len(AppendedNodes) :
                   AppendedNodes[k] =
                       [node_type |-> "Input", func |-> "Identity"]
      ]_vars

\* add_nodes made a template under a changed default behind a template of the
\* initial default and an Input template made under the changed default.
C14_Witness ==
    /\ pc = "builder"
    /\ op.name = "add_nodes"
    /\ op.n = 1
    /\ default_func = "Relu"
    /\ Len(builder_nodes) = 2
    /\ builder_nodes[1].func = "Sigmoid"
    /\ builder_nodes[2] = [node_type |-> op.node_type, func |-> "Relu"]

\* --------------------------------------------- properties of evaluation
\* The graph the builder declared is feed-forward: every connection is
\* Normal, none is a self-loop, none ends at an Input node, and every index
\* names a node.
FeedForward ==
    \A k \in 1..Len(builder_connections) :
        LET c == builder_connections[k]
        IN  /\ c.connection_type = "Normal"
            /\ c.origin # c.dest
            /\ c.origin < Len(builder_nodes)
            /\ c.dest < Len(builder_nodes)
            /\ builder_nodes[c.dest + 1].node_type # "Input"

\* The call supplied a value for every Input node.
AllInputsSupplied ==
    Len(eval.inputs) >= Rank(builder_nodes, "Input", Len(builder_nodes))

RECURSIVE FeedVal(_, _)
RECURSIVE FeedSum(_, _, _)
\* val(n) of a feed-forward graph: the supplied input of an Input node, and
\* for any other node its function applied to the weighted sum of val over
\* the connections that end at it.  depth bounds the recursion.
FeedVal(n, depth) ==
    IF builder_nodes[n].node_type = "Input"
    THEN eval.inputs[Rank(builder_nodes, "Input", n)]
    ELSE IF depth = 0
    THEN 0
    ELSE apply(builder_nodes[n].func,
               FeedSum(n, Len(builder_connections), depth - 1))

\* The weighted sum of val(origin) over the first k connections that end at n.
FeedSum(n, k, depth) ==
    IF k = 0
    THEN 0
    ELSE LET c == builder_connections[k]
         IN  FeedSum(n, k - 1, depth) +
             (IF c.dest + 1 = n
              THEN c.weight * FeedVal(c.origin + 1, depth)
              ELSE 0)

\* C11: when a call of evaluate on a feed-forward graph that supplied a value
\* for every Input node has returned, be it the first call or a later one, the
\* result holds val(node) for each Output node, in node order.
C11_FeedForwardValues ==
    (pc = "net" /\ calls > 0 /\ FeedForward /\ AllInputsSupplied) =>
        /\ Len(res) = Len(OutputNodes)
        /\ \A k \in 1..Len(res) :
              res[k] = FeedVal(OutputNodes[k], Len(builder_nodes))

\* The second call on the chain Input -> Hidden -> Output returned 12 for the
\* input -3, after a first call with the input 1.
C11_Witness ==
    /\ pc = "net"
    /\ calls = 2
    /\ FeedForward
    /\ AllInputsSupplied
    /\ eval.inputs = <<-3>>
    /\ res = <<12>>
    /\ Len(builder_connections) = 2
    /\ \E i, j \in 1..2 :
          /\ builder_nodes[builder_connections[i].origin + 1].node_type = "Input"
          /\ builder_connections[i].dest = builder_connections[j].origin
          /\ builder_nodes[builder_connections[j].origin + 1].node_type = "Hidden"
          /\ builder_nodes[builder_connections[j].dest + 1].node_type = "Output"

\* The connection the closure runs in a step that leaves pc = "fire" with
\* eval.k inside the connections.
Firing == pc = "fire" /\ eval.k <= Len(net_connections)

FiredConn == net_connections[eval.k]

\* The closure reads its origin: the index names a node.
ReadsOrigin == Firing /\ FiredConn.origin < Len(net_nodes)

\* The value a node holds: its Settled value, or the activation of what it
\* has accumulated.
Held(node) ==
    IF node.value.tag = "Activated"
    THEN node.value.x
    ELSE apply(node.func, node.value.x)

\* The graph is one Output node with one Recurrent connection from it to it.
SingleSelfRecurrent ==
    /\ Len(builder_nodes) = 1
    /\ builder_nodes[1].node_type = "Output"
    /\ Len(builder_connections) = 1
    /\ builder_connections[1].origin = 0
    /\ builder_connections[1].dest = 0
    /\ builder_connections[1].connection_type = "Recurrent"

\* C12: the graph of one Output node with a self Recurrent connection builds;
\* in every call after the first, a Recurrent connection whose origin is no
\* Input node reads the value its origin held when the previous call ended,
\* before the origin received any contribution of the current call; and the
\* second and later calls on the single-node graph return f(w * r), r being
\* the value the call before returned.
C12_RecurrentCarryOver ==
    [][/\ SingleSelfRecurrent => err' = "None"
       /\ (/\ ReadsOrigin
           /\ calls >= 1
           /\ FiredConn.connection_type = "Recurrent"
           /\ net_nodes[FiredConn.origin + 1].node_type # "Input") =>
              /\ eval'.read = <<Held(eval.start[FiredConn.origin + 1])>>
              /\ eval.got[FiredConn.origin + 1] = <<>>
       /\ (pc = "fire" /\ pc' = "net" /\ calls >= 1
             /\ SingleSelfRecurrent) =>
              res' = <<apply(builder_nodes[1].func,
                             builder_connections[1].weight * res[1])>>
      ]_vars

\* In a second call a self Recurrent connection, fired first, has just read
\* the 6 its node held when the first call ended, and has contributed -12.
C12_Witness ==
    /\ pc = "fire"
    /\ calls = 1
    /\ eval.k = 2
    /\ net_connections[1].connection_type = "Recurrent"
    /\ net_connections[1].origin = net_connections[1].dest
    /\ net_nodes[net_connections[1].origin + 1].node_type # "Input"
    /\ Held(eval.start[net_connections[1].origin + 1]) = 6
    /\ eval.read = <<6>>
    /\ eval.got[net_connections[1].origin + 1] = <<-12>>

\* The call is about to collect its Output values and return.
Collecting == pc = "fire" /\ eval.k > Len(net_connections)

ReadBy(n) ==
    \/ ReadsOrigin /\ FiredConn.origin + 1 = n
    \/ Collecting /\ net_nodes[n].node_type = "Output"

\* The step is a closure that contributes to node n.
FedBy(n) ==
    /\ ReadsOrigin
    /\ FiredConn.dest < Len(net_nodes)
    /\ FiredConn.dest + 1 = n

\* The step is the input loading and pairs the Input node n with an input.
LoadedBy(n) ==
    /\ pc = "net"
    /\ pc' = "fire"
    /\ net_nodes[n].node_type = "Input"
    /\ Rank(net_nodes, "Input", n) <= Len(eval'.inputs)

\* The step belongs to a call of evaluate.
EvaluateStep == pc \in {"net", "fire"} /\ pc' \in {"net", "fire", "panic"}

\* C15 as stated: a node goes from Accumulating to Settled only when it is
\* read, becomes Accumulating only when it receives a contribution, and no
\* other step of evaluate changes its state.
C15_NodeTransitions ==
    [][EvaluateStep =>
          \A n \in 1..Len(net_nodes) :
              /\ (/\ net_nodes[n].value.tag = "Accumulator"
                  /\ net_nodes'[n].value.tag = "Activated") => ReadBy(n)
              /\ (/\ net_nodes'[n].value.tag = "Accumulator"
                  /\ net_nodes'[n] # net_nodes[n]) => FedBy(n)
              /\ net_nodes'[n] # net_nodes[n] => ReadBy(n) \/ FedBy(n)
      ]_vars

\* C15, amended: a node goes from Accumulating to Settled only when it is
\* read or when the input loading pairs it with an input; it becomes
\* Accumulating only when it receives a contribution; and no step of evaluate
\* other than a read of it, a contribution to it or its pairing with an input
\* changes its state.
C15_NodeTransitionsWithLoading ==
    [][EvaluateStep =>
          \A n \in 1..Len(net_nodes) :
              /\ (/\ net_nodes[n].value.tag = "Accumulator"
                  /\ net_nodes'[n].value.tag = "Activated") =>
                     ReadBy(n) \/ LoadedBy(n)
              /\ (/\ net_nodes'[n].value.tag = "Accumulator"
                  /\ net_nodes'[n] # net_nodes[n]) => FedBy(n)
              /\ net_nodes'[n] # net_nodes[n] =>
                     ReadBy(n) \/ FedBy(n) \/ LoadedBy(n)
      ]_vars

\* The input loading has just set an Input node that was Accumulating to
\* Settled(-3), and no connection has fired yet.
C15_Witness ==
    /\ pc = "fire"
    /\ eval.k = 1
    /\ eval.read = <<>>
    /\ \E n \in 1..Len(net_nodes) :
          /\ net_nodes[n].node_type = "Input"
          /\ eval.start[n].value.tag = "Accumulator"
          /\ net_nodes[n].value = Activated(-3)

RECURSIVE SumSeq(_)
\* The sum of a sequence of contributions, 0 when it is empty.
SumSeq(s) == IF s = <<>> THEN 0 ELSE s[1] + SumSeq(Tail(s))

\* C16: when a Normal connection fires and some connection ends at its
\* origin, every connection that ends at its origin has fired earlier in this
\* call, and the value it reads is the origin's function applied to the sum
\* of the contributions the origin received in this call.
C16_NormalReadsFreshSum ==
    [][(/\ ReadsOrigin
        /\ FiredConn.connection_type = "Normal"
        /\ \E j \in 1..Len(net_connections) :
               net_connections[j].dest = FiredConn.origin) =>
           /\ \A j \in 1..Len(net_connections) :
                  net_connections[j].dest = FiredConn.origin => j < eval.k
           /\ eval'.read =
                  <<apply(net_nodes[FiredConn.origin + 1].func,
                          SumSeq(eval.got[FiredConn.origin + 1]))>>
      ]_vars

\* The positions of the Input nodes of the graph, in node order.
InputNodes ==
    SelectSeq([n \in 1..Len(net_nodes) |-> n],
              LAMBDA n : net_nodes[n].node_type = "Input")

\* C17: with m Input nodes and k inputs, the input loading sets the i-th
\* Input node, for each i up to the smaller of m and k, to Settled with the
\* i-th input, and leaves every other node as it was: the Input nodes beyond
\* the k-th, every node that is no Input node, and with them every input
\* beyond the m-th.
C17_LoadIsPositionalZip ==
    [][(pc = "net" /\ pc' = "fire") =>
          LET inputs == eval'.inputs
              paired == Min(Len(InputNodes), Len(inputs))
          IN  /\ Len(net_nodes') = Len(net_nodes)
              /\ \A i \in 1..paired :
                     net_nodes'[InputNodes[i]] =
                         [net_nodes[InputNodes[i]] EXCEPT
                             !.value = Activated(inputs[i])]
              /\ \A n \in 1..Len(net_nodes) :
                     (\A i \in 1..paired : InputNodes[i] # n) =>
                         net_nodes'[n] = net_nodes[n]
      ]_vars

\* A second call, handed the inputs 1 and -3, has just loaded the 1 into the
\* only Input node, the second node of the graph, which held the -3 of the
\* first call; the Output node in front of it is as it was.
C17_Witness ==
    /\ pc = "fire"
    /\ eval.k = 1
    /\ eval.read = <<>>
    /\ calls = 1
    /\ Len(net_nodes) = 2
    /\ net_nodes[1].node_type = "Output"
    /\ net_nodes[2].node_type = "Input"
    /\ eval.inputs = <<1, -3>>
    /\ eval.start[2].value = Activated(-3)
    /\ net_nodes[2].value = Activated(1)
    /\ net_nodes[1] = eval.start[1]

\* The closure reads an Input node that this call paired with an input.
ReadsPairedInput ==
    /\ ReadsOrigin
    /\ net_nodes[FiredConn.origin + 1].node_type = "Input"
    /\ Rank(net_nodes, "Input", FiredConn.origin + 1) <= Len(eval.inputs)

\* The input this call paired with the Input node at position n.
PairedInput(n) == eval.inputs[Rank(net_nodes, "Input", n)]

\* No Normal connection of the graph has one node as origin and destination.
NoNormalSelfLoop ==
    \A j \in 1..Len(net_connections) :
        net_connections[j].connection_type = "Normal" =>
            net_connections[j].origin # net_connections[j].dest

\* C18 as stated: every read, during a call, of an Input node the call paired
\* with an input x returns x, whatever the node's function and whatever the
\* connections of the graph; taken here over the graphs without a Normal
\* self-loop and without an index that names no node only, so that no
\* violation rests on either.
C18_InputReadsReturnInput ==
    [][(ReadsPairedInput /\ NoNormalSelfLoop /\ IndicesInRange) =>
           eval'.read = <<PairedInput(FiredConn.origin + 1)>>
      ]_vars

\* C18, amended: every read, during a call, of an Input node the call paired
\* with an input x returns x, whatever the node's function, as long as the
\* node has received no contribution from a connection earlier in that call.
C18_InputReadsBeforeContribution ==
    [][(ReadsPairedInput /\ eval.got[FiredConn.origin + 1] = <<>>) =>
           eval'.read = <<PairedInput(FiredConn.origin + 1)>>
      ]_vars

\* A connection has just read -3 from an Input node with the function Abs
\* that the call paired with -3, in a graph where another connection, not
\* yet fired, ends at that Input node.
C18_Witness ==
    /\ pc = "fire"
    /\ eval.k = 2
    /\ Len(net_connections) = 2
    /\ net_nodes[net_connections[1].origin + 1].node_type = "Input"
    /\ net_nodes[net_connections[1].origin + 1].func = "Abs"
    /\ net_connections[1].dest # net_connections[1].origin
    /\ net_connections[2].dest = net_connections[1].origin
    /\ eval.inputs = <<-3>>
    /\ eval.read = <<-3>>

\* ------------------------------------------------- properties of build
\* C19: build never returns InvalidConnectionIndex: it ends with a graph and
\* no error, or with ConnectionLoop, also when connections name nodes that
\* do not exist.
C19_NeverInvalidConnectionIndex ==
    /\ err # "InvalidConnectionIndex"
    /\ pc = "error" => err = "ConnectionLoop"
    /\ pc \in {"net", "fire", "panic"} => err = "None"

\* build returned a graph with a connection whose origin or destination
\* names no node.
C19_Witness ==
    /\ pc = "net"
    /\ calls = 0
    /\ err = "None"
    /\ \E k \in 1..Len(net_connections) :
          \/ net_connections[k].origin >= Len(net_nodes)
          \/ net_connections[k].dest >= Len(net_nodes)

\* The iteration places connection i: it was in no position of output, it
\* is appended to output and it alone leaves the map.
Places(i) ==
    /\ i \in DOMAIN must_be_after
    /\ \A k \in 1..Len(output) : output[k] # i
    /\ output' = Append(output, i)
    /\ DOMAIN must_be_after' = (DOMAIN must_be_after) \ {i}
    /\ pc' = "order"

\* The iteration stops the scheduler with ConnectionLoop.
Stops == pc' = "error" /\ err' = "ConnectionLoop" /\ output' = output

\* C20: while connections are left in the map, every iteration of the
\* scheduler loop places exactly one connection that was not placed before,
\* or stops with ConnectionLoop; the placed and the unplaced connections
\* together are always the n connections, so the loop makes at most n
\* iterations; with the map empty the loop is left; and every run of build
\* ends, with a graph or with an error.
C20_SchedulerTerminates ==
    /\ [][pc = "order" =>
            /\ Len(output) + Cardinality(DOMAIN must_be_after) =
                   Len(builder_connections)
            /\ DOMAIN must_be_after # {} =>
                   (\E i \in ConnIdx : Places(i)) \/ Stops
            /\ DOMAIN must_be_after = {} => pc' # "order"
         ]_vars
    /\ <>(pc \in {"net", "error"})

\* The loop placed one of three connections and stopped with ConnectionLoop
\* in its second iteration.
C20_Witness ==
    /\ pc = "error"
    /\ err = "ConnectionLoop"
    /\ Len(builder_connections) = 3
    /\ Len(output) = 1
    /\ Cardinality(DOMAIN must_be_after) = 2

====
